---- MODULE Spec2Model ----
(***************************************************************************)
(* vtoa: video to ASCII.  A model of the terminal player                   *)
(* (src/vtoa/player.py) and of the frame converter                         *)
(* (src/vtoa/converter.py).                                                *)
(*                                                                         *)
(* Two specifications share the module:                                    *)
(*   Spec      AsciiPlayer.play() driving the AsciiPlayer.frames()         *)
(*             generator over a video source, with interrupts and errors.  *)
(*   ConvSpec  AsciiConverter.calculate_dimensions / frame_to_ascii applied *)
(*             to frames under a changing terminal size.                   *)
(* LiveSpec is Spec with the fairness the single-threaded loop provides.   *)
(***************************************************************************)
EXTENDS Integers, Sequences, FiniteSets, TLC

(***************************************************************************)
(* Bounds of the model.                                                    *)
(***************************************************************************)
\* a source holds 0..MaxFrames frames
MaxFrames == 3
\* play() renders at most MaxIdx frames in one run (caps the looping run)
MaxIdx == 5
\* play() is called at most MaxPlays times on one player object
MaxPlays == 2

(***************************************************************************)
(* Optional values (Python None) and exact rationals <<num, den>>, den > 0 *)
(* (Python floats; the model's values are exactly representable ratios).   *)
(***************************************************************************)
None == <<>>
Some(x) == <<x>>
IsNone(o) == o = <<>>
Val(o) == o[1]

Rat(n, d) == <<n, d>>
RatSub(a, b) == <<a[1] * b[2] - b[1] * a[2], a[2] * b[2]>>
RatEq(a, b) == a[1] * b[2] = b[1] * a[2]
RatPos(a) == a[1] > 0
RatScale(k, a) == <<k * a[1], a[2]>>
RatZero == <<0, 1>>

Max(a, b) == IF a >= b THEN a ELSE b
Min(a, b) == IF a <= b THEN a ELSE b

(***************************************************************************)
(* The player.                                                             *)
(***************************************************************************)
\* the fallback frame rate: self._fps = 30.0, `or 30.0`, 1.0 / 30.0
DEFAULT_FPS == 30

\* frame rates cap.get(cv2.CAP_PROP_FPS) may report
FpsSet == {-1, 0, 24, 30, 60}

\* wall-clock time one loop iteration took before the sleep (seconds)
ElapsedSet == {Rat(0, 1), Rat(1, 100), Rat(1, 40), Rat(1, 20)}

\* the video sources: a missing path, a file cv2 cannot open, readable files
Videos ==
    {[exists |-> FALSE, opens |-> FALSE, fps |-> DEFAULT_FPS, frames |-> 0],
     [exists |-> TRUE, opens |-> FALSE, fps |-> DEFAULT_FPS, frames |-> 0]}
    \cup [exists : {TRUE}, opens : {TRUE}, fps : FpsSet, frames : 0..MaxFrames]

VARIABLES
    video,          \* the file at self.video_path (environment)
    loop,           \* self.loop
    fps_,           \* self._fps
    frame_count_,   \* self._frame_count
    duration_,      \* self._duration
    cap,            \* the cv2.VideoCapture of the running generator
    pc,             \* where play() / frames() stand
    show_status,    \* play(show_status=...)
    on_frame,       \* play(on_frame=...): TRUE when an observer is given
    frame_duration, \* play(): frame_duration
    frame_idx,      \* play(): frame_idx
    g_frame_duration, \* frames(): frame_duration
    g_frame_idx,    \* frames(): frame_idx
    g_frame,        \* frames(): frame, the number of the decoded source frame
    ascii_frame,    \* the AsciiFrame yielded to play()
    slept,          \* the last time.sleep() duration of the run (0: none)
    tty,            \* sys.stdout: cursor visibility, the last two writes
    rendered,       \* the frames written to the terminal in this run
    observed,       \* the (frame, index) pairs handed to on_frame in this run
    opened,         \* this run's source was confirmed open
    outcome,        \* how this run of play() ended
    plays           \* calls of play() so far

VARIABLES
    conv,       \* the AsciiConverter: chars, width, height, aspect_ratio,
                \* color, _char_count; args: the chars and invert it was built from
    conv_call   \* the last call on it: its inputs and what it returned

cvars == <<conv, conv_call>>

pvars == <<video, loop, fps_, frame_count_, duration_, cap, pc, show_status,
           on_frame, frame_duration, frame_idx, g_frame_duration, g_frame_idx,
           g_frame, ascii_frame, slept, tty, rendered,
           observed, opened, outcome, plays>>

NoCap == [state |-> "none", pos |-> 0]
NoFrame == [frame |-> -1, timestamp |-> RatZero, ts_idx |-> -1]

\* 1.0 / self._fps if self._fps > 0 else 1.0 / 30.0
FrameDuration(fps) == IF fps > 0 THEN Rat(1, fps) ELSE Rat(1, DEFAULT_FPS)

\* sys.stdout.write(s): "\033[?25l" hides the cursor, "\033[?25h" shows it;
\* tail keeps the last two writes
Write(t, s) ==
    [cursor |-> IF s = "hide" THEN "hidden"
                ELSE IF s = "show" THEN "shown" ELSE t.cursor,
     tail |-> IF Len(t.tail) < 2 THEN Append(t.tail, s) ELSE <<t.tail[2], s>>]

\* a cleanup that forgets the cursor: only the newline is written
play_finally_newline_only(t) == Write(t, "newline")

\* the finally block of play(): show the cursor, then a newline
play_finally(t) == Write(Write(t, "show"), "newline")

\* a release placed after the while loop instead of in a finally block
frames_release_after_loop(c, why) ==
    IF c.state = "open" /\ why = "break" THEN [c EXCEPT !.state = "released"] ELSE c

\* cap.release() in the finally block of frames(). The block runs on every
\* way out of the try: "break" (end of stream), "exception" (an exception
\* passing through the generator) and "close" (the suspended generator is
\* closed when the for loop of play() is left and drops it)
frames_finally(c, why) ==
    IF c.state = "open" THEN [c EXCEPT !.state = "released"] ELSE c

\* a decoder that drops a frame to catch up
cap_read_skipping(c, n) ==
    IF c.pos < n THEN [ret |-> TRUE, frame |-> c.pos, pos |-> c.pos + 2]
    ELSE [ret |-> FALSE, frame |-> -1, pos |-> c.pos]

\* cap.read() on an open capture: the next frame in order, or ret = False
cap_read(c, n) ==
    IF c.pos < n THEN [ret |-> TRUE, frame |-> c.pos, pos |-> c.pos + 1]
    ELSE [ret |-> FALSE, frame |-> -1, pos |-> c.pos]

\* a generator that ignores self.loop
on_exhausted_always_break(lp) == "break"

\* what frames() does when cap.read() returns ret = False
on_exhausted(lp) == IF lp THEN "rewind" ELSE "break"

\* sleep_time = frame_duration - elapsed; time.sleep only if sleep_time > 0
sleep_time(period, elapsed) ==
    IF RatPos(RatSub(period, elapsed)) THEN RatSub(period, elapsed) ELSE RatZero

PInit ==
    /\ video \in Videos
    /\ loop \in BOOLEAN
    /\ fps_ = DEFAULT_FPS
    /\ frame_count_ = 0
    /\ duration_ = RatZero
    /\ cap = NoCap
    /\ pc = "idle"
    /\ show_status = TRUE
    /\ on_frame = FALSE
    /\ frame_duration = FrameDuration(DEFAULT_FPS)
    /\ frame_idx = 0
    /\ g_frame_duration = FrameDuration(DEFAULT_FPS)
    /\ g_frame_idx = 0
    /\ g_frame = -1
    /\ ascii_frame = NoFrame
    /\ slept = RatZero
    /\ tty = [cursor |-> "shown", tail |-> <<>>]
    /\ rendered = <<>>
    /\ observed = <<>>
    /\ opened = FALSE
    /\ outcome = "none"
    /\ plays = 0

\* leaving play(): the finally block, then return or re-raise
Leave(how) ==
    /\ tty' = play_finally(tty)
    /\ outcome' = how
    /\ pc' = IF how = "error" THEN "raised" ELSE "returned"

\* play() up to the for statement: the period, the cursor hide, frame_idx = 0
PlayStart ==
    /\ pc \in {"idle", "returned", "raised"}
    /\ plays < MaxPlays
    /\ \E st \in BOOLEAN, cb \in BOOLEAN :
          /\ show_status' = st
          /\ on_frame' = cb
    /\ frame_duration' = FrameDuration(fps_)
    /\ tty' = Write(tty, "hide")
    /\ frame_idx' = 0
    /\ cap' = NoCap
    /\ g_frame' = -1
    /\ g_frame_idx' = 0
    /\ ascii_frame' = NoFrame
    /\ slept' = RatZero
    /\ rendered' = <<>>
    /\ observed' = <<>>
    /\ opened' = FALSE
    /\ outcome' = "running"
    /\ plays' = plays + 1
    /\ pc' = "open"
    /\ UNCHANGED cvars
    /\ UNCHANGED <<video, loop, fps_, frame_count_, duration_, g_frame_duration>>

\* first next() of frames(): _open_video() raises
GenOpenFail ==
    /\ pc = "open"
    /\ ~(video.exists /\ video.opens)
    /\ Leave("error")
    /\ UNCHANGED cvars
    /\ UNCHANGED <<video, loop, fps_, frame_count_, duration_, cap, show_status,
                   on_frame, frame_duration, frame_idx, g_frame_duration,
                   g_frame_idx, g_frame, ascii_frame, slept, rendered, observed,
                   opened, plays>>

\* first next() of frames(): _open_video() succeeds, metadata is read
GenOpenOk ==
    /\ pc = "open"
    /\ video.exists /\ video.opens
    /\ LET f == IF video.fps # 0 THEN video.fps ELSE DEFAULT_FPS IN
          /\ fps_' = f
          /\ frame_count_' = video.frames
          /\ duration_' = IF f > 0 THEN Rat(video.frames, f) ELSE RatZero
          /\ g_frame_duration' = FrameDuration(f)
    /\ cap' = [state |-> "open", pos |-> 0]
    /\ opened' = TRUE
    /\ g_frame_idx' = 0
    /\ pc' = "read"
    /\ UNCHANGED cvars
    /\ UNCHANGED <<video, loop, show_status, on_frame, frame_duration, frame_idx,
                   g_frame, ascii_frame, slept, tty, rendered,
                   observed, outcome, plays>>

\* cap.read() returns a frame
GenRead ==
    /\ pc = "read"
    /\ frame_idx < MaxIdx
    /\ LET r == cap_read(cap, video.frames) IN
          /\ r.ret
          /\ g_frame' = r.frame
          /\ cap' = [cap EXCEPT !.pos = r.pos]
    /\ pc' = "convert"
    /\ UNCHANGED cvars
    /\ UNCHANGED <<video, loop, fps_, frame_count_, duration_, show_status,
                   on_frame, frame_duration, frame_idx, g_frame_duration,
                   g_frame_idx, ascii_frame, slept, tty,
                   rendered, observed, opened, outcome, plays>>

\* cap.read() returns ret = False and loop is set: rewind and continue
GenRewind ==
    /\ pc = "read"
    /\ ~cap_read(cap, video.frames).ret
    /\ on_exhausted(loop) = "rewind"
    /\ cap' = [cap EXCEPT !.pos = 0]
    /\ g_frame_idx' = 0
    /\ UNCHANGED cvars
    /\ UNCHANGED <<video, loop, fps_, frame_count_, duration_, pc, show_status,
                   on_frame, frame_duration, frame_idx, g_frame_duration,
                   g_frame, ascii_frame, slept, tty, rendered,
                   observed, opened, outcome, plays>>

\* cap.read() returns ret = False and loop is unset: break, release, the for
\* loop of play() ends and play() returns through its finally block
GenStop ==
    /\ pc = "read"
    /\ ~cap_read(cap, video.frames).ret
    /\ on_exhausted(loop) = "break"
    /\ cap' = frames_finally(cap, "break")
    /\ Leave("stopped")
    /\ UNCHANGED cvars
    /\ UNCHANGED <<video, loop, fps_, frame_count_, duration_, show_status,
                   on_frame, frame_duration, frame_idx, g_frame_duration,
                   g_frame_idx, g_frame, ascii_frame, slept, rendered, observed,
                   opened, plays>>

\* frame_to_ascii(frame, frame_idx * frame_duration), then yield
GenConvert ==
    /\ pc = "convert"
    /\ ascii_frame' = [frame |-> g_frame,
                       timestamp |-> RatScale(g_frame_idx, g_frame_duration),
                       ts_idx |-> g_frame_idx]
    /\ pc' = "render"
    /\ UNCHANGED cvars
    /\ UNCHANGED <<video, loop, fps_, frame_count_, duration_, cap, show_status,
                   on_frame, frame_duration, frame_idx, g_frame_duration,
                   g_frame_idx, g_frame, slept, tty, rendered,
                   observed, opened, outcome, plays>>

\* an exception inside the generator's try block (decoding, conversion):
\* frames() releases the capture, play() restores the cursor and re-raises
GenFail ==
    /\ pc \in {"read", "convert"}
    /\ cap' = frames_finally(cap, "exception")
    /\ Leave("error")
    /\ UNCHANGED cvars
    /\ UNCHANGED <<video, loop, fps_, frame_count_, duration_, show_status,
                   on_frame, frame_duration, frame_idx, g_frame_duration,
                   g_frame_idx, g_frame, ascii_frame, slept, rendered, observed,
                   opened, plays>>

\* play(): clear the screen, write the frame, the status line, flush
Render ==
    /\ pc = "render"
    /\ tty' = IF show_status
              THEN Write(Write(Write(tty, "clear"), "frame"), "status")
              ELSE Write(Write(tty, "clear"), "frame")
    /\ rendered' = Append(rendered, [frame |-> ascii_frame.frame,
                                     ts_idx |-> ascii_frame.ts_idx,
                                     idx |-> frame_idx,
                                     period |-> frame_duration])
    /\ pc' = "callback"
    /\ UNCHANGED cvars
    /\ UNCHANGED <<video, loop, fps_, frame_count_, duration_, cap, show_status,
                   on_frame, frame_duration, frame_idx, g_frame_duration,
                   g_frame_idx, g_frame, ascii_frame, slept, observed,
                   opened, outcome, plays>>

\* play(): on_frame(ascii_frame, frame_idx) if given; frame_idx += 1
Callback ==
    /\ pc = "callback"
    /\ observed' = IF on_frame
                   THEN Append(observed, [ts_idx |-> ascii_frame.ts_idx,
                                          idx |-> frame_idx])
                   ELSE observed
    /\ frame_idx' = frame_idx + 1
    /\ pc' = "sleep"
    /\ UNCHANGED cvars
    /\ UNCHANGED <<video, loop, fps_, frame_count_, duration_, cap, show_status,
                   on_frame, frame_duration, g_frame_duration, g_frame_idx,
                   g_frame, ascii_frame, slept, tty, rendered,
                   opened, outcome, plays>>

\* play(): the end-of-iteration sleep; then the for loop resumes the
\* generator, which runs frame_idx += 1 and loops to cap.read()
Sleep ==
    /\ pc = "sleep"
    /\ \E elapsed \in ElapsedSet : slept' = sleep_time(frame_duration, elapsed)
    /\ g_frame_idx' = g_frame_idx + 1
    /\ pc' = "read"
    /\ UNCHANGED cvars
    /\ UNCHANGED <<video, loop, fps_, frame_count_, duration_, cap, show_status,
                   on_frame, frame_duration, frame_idx, g_frame_duration,
                   g_frame, ascii_frame, tty, rendered,
                   observed, opened, outcome, plays>>

\* an exception in the body of the for loop (a write, the observer): the
\* suspended generator is closed (its finally releases the capture), play()
\* restores the cursor and re-raises
ConsumerFail ==
    /\ \/ pc = "render"
       \/ pc = "callback" /\ on_frame
    /\ cap' = frames_finally(cap, "close")
    /\ Leave("error")
    /\ UNCHANGED cvars
    /\ UNCHANGED <<video, loop, fps_, frame_count_, duration_, show_status,
                   on_frame, frame_duration, frame_idx, g_frame_duration,
                   g_frame_idx, g_frame, ascii_frame, slept, rendered, observed,
                   opened, plays>>

\* KeyboardInterrupt anywhere inside the try block of play(): the generator
\* is unwound or closed, `except KeyboardInterrupt: pass`, the finally block
Interrupt ==
    /\ pc \in {"open", "read", "convert", "render", "callback", "sleep"}
    /\ cap' = frames_finally(cap, IF pc \in {"open", "read", "convert"}
                                  THEN "exception" ELSE "close")
    /\ Leave("cancelled")
    /\ UNCHANGED cvars
    /\ UNCHANGED <<video, loop, fps_, frame_count_, duration_, show_status,
                   on_frame, frame_duration, frame_idx, g_frame_duration,
                   g_frame_idx, g_frame, ascii_frame, slept, rendered, observed,
                   opened, plays>>

(***************************************************************************)
(* The converter.                                                          *)
(***************************************************************************)
RatDiv(a, b) == <<a[1] * b[2], a[2] * b[1]>>
RatMul(a, b) == <<a[1] * b[1], a[2] * b[2]>>

\* int(x) of a Python float x = r[1] / r[2]: truncation toward zero
PyInt(r) ==
    IF r[1] >= 0 THEN r[1] \div r[2] ELSE -((-r[1]) \div r[2])

\* the character ramps, one string per character
ASCII_CHARS_SIMPLE == <<"@", "#", "=", "-", ".", " ">>
Ramps == {<<>>, <<"@">>, <<"A", "B">>, ASCII_CHARS_SIMPLE}

\* chars[::-1]
Reverse(s) == [i \in 1..Len(s) |-> s[Len(s) + 1 - i]]

\* terminal characters are roughly 2x taller than wide
CHAR_ASPECT_RATIO == Rat(1, 2)

ASPECT_RATIO_REEL == Rat(9, 16)
ASPECT_RATIO_VIDEO == Rat(16, 9)

\* a piece of the output string: a character, or a zero-width escape sequence
Chr(c) == <<"chr", c>>
Esc(e) == <<"esc", e>>
LF == Chr("\n")
ANSI_RESET == Esc("[0m")

\* f"\033[38;2;{r};{g};{b}m"
rgb_to_ansi(r, g, b) ==
    Esc("[38;2;" \o ToString(r) \o ";" \o ToString(g) \o ";" \o ToString(b) \o "m")

\* what shutil.get_terminal_size() reports: <<columns, lines>>
TermSizes == {<<1, 1>>, <<3, 2>>, <<7, 4>>, <<40, 10>>}

\* explicit widths and heights (positive), or None
Widths == {None, Some(2), Some(50)}
Heights == {None, Some(3), Some(20)}
Aspects == {None, Some(ASPECT_RATIO_REEL), Some(ASPECT_RATIO_VIDEO)}

\* Raster frames: numpy arrays of shape (height, width) or (height, width, 3).
\* The columns left of width \div 2 hold the pixel `left`, the others the
\* pixel `right` (<<v>> for one channel, <<b, g, r>> for three).
Shapes == {<<16, 9>>, <<9, 16>>, <<4, 4>>}
GrayPixels == {<<<<0>>, <<0>>>>, <<<<255>>, <<255>>>>, <<<<0>>, <<255>>>>}
ColorPixels == {<<<<255, 0, 0>>, <<255, 0, 0>>>>,
                <<<<10, 200, 100>>, <<10, 200, 100>>>>,
                <<<<0, 0, 0>>, <<255, 255, 255>>>>}
Frames ==
    {[chan |-> Len(px[1]), width |-> sh[1], height |-> sh[2],
      left |-> px[1], right |-> px[2]] :
        sh \in Shapes, px \in GrayPixels \cup ColorPixels}

\* AsciiConverter.__init__
AsciiConverter(chars, width, height, aspect_ratio, invert, color) ==
    LET cs == IF ~invert THEN chars ELSE Reverse(chars) IN
    [chars |-> cs, width |-> width, height |-> height,
     aspect_ratio |-> aspect_ratio, color |-> color, char_count |-> Len(cs),
     args |-> [chars |-> chars, invert |-> invert]]

\* size.columns, size.lines - 1
get_terminal_size(size) == <<size[1], size[2] - 1>>

\* a bounds check that only caps the value
clamp_upper_only(v, bound) == Min(v, bound)

\* max(1, min(v, bound))
clamp(v, bound) == Max(1, Min(v, bound))

\* a resolver without the both-dimensions branch
both_specified_never(cv) == FALSE

\* self.width is not None and self.height is not None
both_specified(cv) == ~IsNone(cv.width) /\ ~IsNone(cv.height)

\* round(x) in place of int(x): the nearest integer (halves upward)
derive_rounded(r) == (2 * r[1] + r[2]) \div (2 * r[2])

\* int(target_width / char_adjusted_ratio), int(target_height * char_adjusted_ratio)
derive(r) == PyInt(r)

\* AsciiConverter.calculate_dimensions under the terminal size `size`
calculate_dimensions(cv, size, frame_width, frame_height) ==
    LET term_width == get_terminal_size(size)[1]
        term_height == get_terminal_size(size)[2]
        aspect_ratio == IF ~IsNone(cv.aspect_ratio) THEN Val(cv.aspect_ratio)
                        ELSE Rat(frame_width, frame_height)
        char_adjusted_ratio == RatDiv(aspect_ratio, CHAR_ASPECT_RATIO)
        by_width(w) == derive(RatDiv(Rat(w, 1), char_adjusted_ratio))
        by_height(h) == derive(RatMul(Rat(h, 1), char_adjusted_ratio))
        target ==
            IF ~IsNone(cv.width)
            THEN LET w == Min(Val(cv.width), term_width) IN <<w, by_width(w)>>
            ELSE IF ~IsNone(cv.height)
            THEN LET h == Min(Val(cv.height), term_height) IN <<by_height(h), h>>
            ELSE IF by_width(term_width) > term_height
            THEN <<by_height(term_height), term_height>>
            ELSE <<term_width, by_width(term_width)>>
    IN  IF both_specified(cv)
        THEN <<Min(Val(cv.width), term_width), Min(Val(cv.height), term_height)>>
        ELSE <<clamp(target[1], term_width), clamp(target[2], term_height)>>

\* cv2.cvtColor(frame, cv2.COLOR_BGR2GRAY): Y = 0.299 R + 0.587 G + 0.114 B
BGR2GRAY(p) == (299 * p[3] + 587 * p[2] + 114 * p[1] + 500) \div 1000

\* the grayscale pixel: converted for three channels, the frame itself for one
gray(frame, p) == IF frame.chan = 3 THEN BGR2GRAY(p) ELSE p[1]

\* cv2.resize(..., (target_width, target_height), INTER_AREA), column x
\* (0-based) of any row: the average of the source columns the cell covers,
\* l and r being the values left and right of column width \div 2
resize(frame, target_width, x, l, r) ==
    LET fw == frame.width
        lo == x * fw
        hi == (x + 1) * fw
        ov == Max(0, hi - Max(lo, (fw \div 2) * target_width))
    IN  (2 * (l * (fw - ov) + r * ov) + fw) \div (2 * fw)

\* an index rounded to the nearest bucket instead of truncated
char_index_rounded(v, char_count) ==
    ((2 * v * (char_count - 1) + 255) \div (2 * 255)) % 256

\* (resized_gray / 255 * (self._char_count - 1)).astype(np.uint8)
char_index(v, char_count) == PyInt(Rat(v * (char_count - 1), 255)) % 256

RECURSIVE join_terminating(_)
RECURSIVE JoinLines(_)
\* a join that ends every line, the last one too
join_terminating(lines) ==
    IF Len(lines) = 0 THEN <<>>
    ELSE lines[1] \o <<LF>> \o join_terminating(Tail(lines))

\* "\n".join(lines)
JoinLines(lines) ==
    IF Len(lines) = 0 THEN <<>>
    ELSE IF Len(lines) = 1 THEN lines[1]
    ELSE lines[1] \o <<LF>> \o JoinLines(Tail(lines))

\* AsciiConverter.frame_to_ascii under the terminal size `size`
frame_to_ascii(cv, size, frame, timestamp) ==
    LET dims == calculate_dimensions(cv, size, frame.width, frame.height)
        target_width == dims[1]
        target_height == dims[2]
        index(x) == char_index(resize(frame, target_width, x,
                                      gray(frame, frame.left),
                                      gray(frame, frame.right)),
                               cv.char_count)
        char(x) == Chr(cv.chars[index(x) + 1])
        \* resized_rgb[y, x] = (r, g, b)
        rgb(x) == [k \in 1..3 |->
                     resize(frame, target_width, x,
                            frame.left[4 - k], frame.right[4 - k])]
        colored_line ==
            [k \in 1..(2 * target_width + 1) |->
                IF k = 2 * target_width + 1 THEN ANSI_RESET
                ELSE IF k % 2 = 1
                THEN LET c == rgb((k - 1) \div 2) IN rgb_to_ansi(c[1], c[2], c[3])
                ELSE char((k - 2) \div 2)]
        plain_line == [k \in 1..target_width |-> char(k - 1)]
        line == IF cv.color /\ frame.chan = 3 THEN colored_line ELSE plain_line
    IN  IF target_width < 1 \/ target_height < 1
        THEN [raised |-> "cv2.error"]
        ELSE IF \E x \in 0..(target_width - 1) : index(x) + 1 > cv.char_count
        THEN [raised |-> "IndexError"]
        ELSE [raised |-> "no",
              content |-> JoinLines([y \in 1..target_height |-> line]),
              width |-> target_width,
              height |-> target_height,
              timestamp |-> timestamp]

Converters ==
    {AsciiConverter(ch, w, h, a, inv, col) :
        ch \in Ramps, w \in Widths, h \in Heights, a \in Aspects,
        inv \in BOOLEAN, col \in BOOLEAN}

NoCall == [op |-> "none"]

CInit ==
    /\ conv \in Converters
    /\ conv_call = NoCall

\* converter.calculate_dimensions(frame_width, frame_height)
CalculateDimensions ==
    /\ conv_call = NoCall
    /\ \E size \in TermSizes, sh \in Shapes :
          conv_call' = [op |-> "calculate_dimensions", size |-> size,
                        frame_width |-> sh[1], frame_height |-> sh[2],
                        result |-> calculate_dimensions(conv, size, sh[1], sh[2])]
    /\ UNCHANGED conv
    /\ UNCHANGED pvars

\* converter.frame_to_ascii(frame) returns an AsciiFrame
FrameToAscii ==
    /\ conv_call = NoCall
    /\ \E size \in TermSizes, frame \in Frames :
          LET res == frame_to_ascii(conv, size, frame, RatZero) IN
          /\ res.raised = "no"
          /\ conv_call' = [op |-> "frame_to_ascii", size |-> size,
                           frame |-> frame, result |-> res]
    /\ UNCHANGED conv
    /\ UNCHANGED pvars

\* converter.frame_to_ascii(frame) raises
FrameToAsciiRaises ==
    /\ conv_call = NoCall
    /\ \E size \in TermSizes, frame \in Frames :
          LET res == frame_to_ascii(conv, size, frame, RatZero) IN
          /\ res.raised # "no"
          /\ conv_call' = [op |-> "frame_to_ascii", size |-> size,
                           frame |-> frame, result |-> res]
    /\ UNCHANGED conv
    /\ UNCHANGED pvars

PNext ==
    \/ PlayStart
    \/ GenOpenFail
    \/ GenOpenOk
    \/ GenRead
    \/ GenRewind
    \/ GenStop
    \/ GenConvert
    \/ GenFail
    \/ Render
    \/ Callback
    \/ Sleep
    \/ ConsumerFail
    \/ Interrupt

\* the caller is done with the result; the converter takes the next call
Discard ==
    /\ conv_call # NoCall
    /\ conv_call' = NoCall
    /\ UNCHANGED conv
    /\ UNCHANGED pvars

CNext ==
    \/ CalculateDimensions
    \/ FrameToAscii
    \/ FrameToAsciiRaises
    \/ Discard

vars == <<pvars, cvars>>

\* the player specification: the converter is the player's default one
Init ==
    /\ PInit
    /\ conv = AsciiConverter(ASCII_CHARS_SIMPLE, None, None, None, FALSE, FALSE)
    /\ conv_call = NoCall

Next == PNext

Spec == Init /\ [][Next]_vars

\* the converter specification: no playback runs
ConvInit ==
    /\ video = [exists |-> FALSE, opens |-> FALSE, fps |-> DEFAULT_FPS, frames |-> 0]
    /\ loop = FALSE
    /\ PInit
    /\ CInit

ConvSpec == ConvInit /\ [][CNext]_vars

\* The loop is one thread: unless it is interrupted or an exception is raised
\* (Interrupt, GenFail, ConsumerFail: not fair), its next statement runs.
LiveSpec ==
    /\ Init
    /\ [][Next]_vars
    /\ WF_vars(GenOpenOk)
    /\ WF_vars(GenRead)
    /\ WF_vars(GenRewind)
    /\ WF_vars(GenStop)
    /\ WF_vars(GenConvert)
    /\ WF_vars(Render)
    /\ WF_vars(Callback)
    /\ WF_vars(Sleep)

(***************************************************************************)
(* Properties of the player.                                               *)
(***************************************************************************)
Ended == pc \in {"returned", "raised"}

\* C1: whenever play() has returned or raised, the cursor is visible and the
\* last two writes to the terminal are the cursor-show sequence and a newline.
C1_CursorRestored ==
    Ended => /\ tty.cursor = "shown"
             /\ tty.tail = <<"show", "newline">>

\* C1 witness: play() re-raised an exception of the loop body after a frame
\* was written, and the cursor is visible again.
C1_Witness ==
    /\ pc = "raised"
    /\ opened
    /\ Len(rendered) >= 1
    /\ tty.cursor = "shown"

\* C2 (as claimed): for a source that cannot be opened the cursor-hide
\* sequence is never written, so the cursor is visible in every state.
C2_NoHideWhenOpenFails ==
    ~(video.exists /\ video.opens) => tty.cursor = "shown"

\* C3: whenever play() has returned or raised after the source was opened,
\* the capture has been released.
C3_Released ==
    (Ended /\ opened) => cap.state = "released"

\* C3 witness: an interrupt cancelled play() during the sleep after a frame
\* (play() has counted the frame, the suspended generator has not yet), and
\* the capture is released.
C3_Witness ==
    /\ outcome = "cancelled"
    /\ Len(rendered) >= 1
    /\ ~loop
    /\ frame_idx = g_frame_idx + 1
    /\ cap.state = "released"

\* C4: without loop, the frames rendered so far are the source frames
\* 0, 1, 2, ... with indices 0, 1, 2, ... in order; when play() stops by
\* itself exactly all N frames were rendered, the cursor is visible and the
\* output ends with a newline; and every run that is not looping ends
\* (stopped, unless it is cancelled or fails first).
C4_SequentialThenStopped ==
    /\ [](~loop =>
           /\ \A i \in 1..Len(rendered) :
                 /\ rendered[i].frame = i - 1
                 /\ rendered[i].idx = i - 1
           /\ outcome = "stopped" =>
                 /\ Len(rendered) = video.frames
                 /\ pc = "returned"
                 /\ tty.cursor = "shown"
                 /\ tty.tail = <<"show", "newline">>)
    /\ (~loop /\ outcome = "running" /\ opened)
          ~> (outcome \in {"stopped", "cancelled", "error"})

\* C4 witness: a full source played to its end with the last iteration
\* running behind its period (no sleep).
C4_Witness ==
    /\ ~loop
    /\ outcome = "stopped"
    /\ video.frames = MaxFrames
    /\ Len(rendered) = MaxFrames
    /\ slept = RatZero

\* the generator stands at the end of a non-empty source
Exhausted ==
    /\ pc = "read"
    /\ video.frames >= 1
    /\ cap.pos = video.frames

\* C5: with loop, play() never stops by itself; the frames rendered are
\* source frames 0..N-1 over and over; and each time the source is exhausted
\* frame 0 is rendered again, unless the run is cancelled or fails first
\* (or has rendered MaxIdx frames, where the model stops).
C5_LoopsUntilCancelled ==
    /\ [](loop => outcome # "stopped")
    /\ [](loop => \A i \in 1..Len(rendered) :
                     rendered[i].frame = (i - 1) % video.frames)
    /\ (loop /\ Exhausted /\ frame_idx < MaxIdx)
          ~> \/ /\ pc = "callback"
                /\ rendered[Len(rendered)].frame = 0
                /\ Len(rendered) > video.frames
             \/ outcome \in {"cancelled", "error"}

\* C5 witness: a looping run rendered frame 0 again after the whole source.
C5_Witness ==
    /\ loop
    /\ video.frames >= 2
    /\ Len(rendered) = video.frames + 1
    /\ rendered[Len(rendered)].frame = 0
    /\ outcome = "running"

\* the period the claim expects: 1 / frameRate of the opened source
ExpectedPeriod == IF video.fps > 0 THEN Rat(1, video.fps) ELSE Rat(1, DEFAULT_FPS)

\* C6 (as claimed): the period the end-of-iteration sleep is computed from is
\* 1 / frameRate of the opened source (1/30 when that rate is <= 0).
C6_PeriodFromSource ==
    pc = "sleep" => RatEq(frame_duration, ExpectedPeriod)

(***************************************************************************)
(* Properties of the converter.                                            *)
(***************************************************************************)
\* the terminal bounds of the last call: columns, and lines less the status row
Cols == get_terminal_size(conv_call.size)[1]
Rows == get_terminal_size(conv_call.size)[2]

DimsCall == conv_call.op = "calculate_dimensions"
Returned == conv_call.op = "frame_to_ascii" /\ conv_call.result.raised = "no"
NeitherSpecified == IsNone(conv.width) /\ IsNone(conv.height)

\* C7: for terminal bounds cols >= 1 and rows >= 1 the resolved (w, h) has
\* 1 <= w <= cols and 1 <= h <= rows, whatever is configured.
C7_WithinTerminal ==
    (DimsCall /\ Cols >= 1 /\ Rows >= 1) =>
       /\ 1 <= conv_call.result[1] /\ conv_call.result[1] <= Cols
       /\ 1 <= conv_call.result[2] /\ conv_call.result[2] <= Rows

\* C7 witness: only a width is configured and the derived height, 0, was
\* raised to 1 by the final bounds check.
C7_Witness ==
    /\ DimsCall
    /\ conv.width = Some(2) /\ IsNone(conv.height)
    /\ conv.aspect_ratio = Some(ASPECT_RATIO_VIDEO)
    /\ Rows >= 1
    /\ conv_call.result = <<2, 1>>

\* C8: with both width and height configured the resolved pair is exactly
\* (min(width, cols), min(height, rows)), for every source size and every
\* forced aspect ratio.
C8_BothExplicit ==
    (DimsCall /\ ~IsNone(conv.width) /\ ~IsNone(conv.height)) =>
       conv_call.result = <<Min(Val(conv.width), Cols), Min(Val(conv.height), Rows)>>

\* C8 witness: both configured, a forced aspect ratio, a 16:9 source, and the
\* width capped by the terminal.
C8_Witness ==
    /\ DimsCall
    /\ conv.width = Some(50) /\ conv.height = Some(3)
    /\ ~IsNone(conv.aspect_ratio)
    /\ conv_call.frame_width = 16 /\ conv_call.frame_height = 9
    /\ conv_call.result = <<40, 3>>

\* the char-adjusted ratio of the last calculate_dimensions call
CallRatio ==
    LET a == IF ~IsNone(conv.aspect_ratio) THEN Val(conv.aspect_ratio)
             ELSE Rat(conv_call.frame_width, conv_call.frame_height)
    IN  Rat(2 * a[1], a[2])

\* k is the rational r >= 0 truncated / k is an integer nearest to r
IsTruncationOf(k, r) == k * r[2] <= r[1] /\ r[1] < (k + 1) * r[2]
IsNearestTo(k, r) ==
    /\ 2 * k * r[2] - 2 * r[1] <= r[2]
    /\ 2 * r[1] - 2 * k * r[2] <= r[2]

\* v capped at the bound, then raised to at least 1
Bounded(v, bound) ==
    LET capped == IF v > bound THEN bound ELSE v IN
    IF capped < 1 THEN 1 ELSE capped

\* candidates for a derived dimension
Derivable == 0..(4 * Max(Cols, Rows) + 4)

\* the 40 x 10 terminal (9 rows left) with a 16:9 source resolves to (32, 9)
Example_32x9 ==
    (/\ DimsCall /\ NeitherSpecified /\ IsNone(conv.aspect_ratio)
     /\ conv_call.size = <<40, 10>>
     /\ conv_call.frame_width = 16 /\ conv_call.frame_height = 9)
    => conv_call.result = <<32, 9>>

\* the fit of the neither-configured case, `Derived` saying how a quotient
\* becomes an integer: width = cols and the derived height, or, if that
\* height exceeds rows, height = rows and the derived width; both bounded
FitsBy(Derived(_, _)) ==
    \E h \in Derivable :
       /\ Derived(h, RatDiv(Rat(Cols, 1), CallRatio))
       /\ IF h > Rows
          THEN \E w \in Derivable :
                  /\ Derived(w, RatMul(Rat(Rows, 1), CallRatio))
                  /\ conv_call.result = <<Bounded(w, Cols), Bounded(Rows, Rows)>>
          ELSE conv_call.result = <<Bounded(Cols, Cols), Bounded(h, Rows)>>

\* C9 (as claimed): with neither dimension configured the derived dimension
\* is the quotient rounded to the nearest integer.
C9_RoundedToNearest ==
    /\ (DimsCall /\ NeitherSpecified) => FitsBy(IsNearestTo)
    /\ Example_32x9

\* C9 (amended): with neither dimension configured the derived dimension is
\* the quotient truncated toward zero (then bounded to [1, terminal bound]);
\* the 40 x 10 terminal with a 16:9 source resolves to (32, 9).
C9_Truncated ==
    /\ (DimsCall /\ NeitherSpecified) => FitsBy(IsTruncationOf)
    /\ Example_32x9

\* C9 witness: the example of the claim, fitted by height.
C9_Witness ==
    /\ DimsCall /\ NeitherSpecified /\ IsNone(conv.aspect_ratio)
    /\ conv_call.size = <<40, 10>>
    /\ conv_call.frame_width = 16 /\ conv_call.frame_height = 9
    /\ conv_call.result = <<32, 9>>

\* the positions of the line breaks of a content, and its line count
Breaks(content) == {k \in DOMAIN content : content[k] = LF}
LineCount(content) == Cardinality(Breaks(content)) + 1

\* every line of the content (between two consecutive breaks or ends) holds
\* exactly n characters, escape sequences not counted
EveryLineHas(content, n) ==
    LET ends == Breaks(content) \cup {Len(content) + 1} IN
    \A b \in Breaks(content) \cup {0} :
       LET e == CHOOSE k \in ends : k > b /\ \A j \in ends : j > b => k <= j IN
       Cardinality({k \in (b + 1)..(e - 1) : content[k][1] = "chr"}) = n

\* C10: the AsciiFrame frame_to_ascii returns has the width and height the
\* resolver gives for the frame, and its content is exactly height lines of
\* exactly width visible glyphs each.
C10_GridMatches ==
    Returned =>
       LET r == conv_call.result
           d == calculate_dimensions(conv, conv_call.size,
                                     conv_call.frame.width, conv_call.frame.height)
       IN  /\ <<r.width, r.height>> = d
           /\ LineCount(r.content) = r.height
           /\ EveryLineHas(r.content, r.width)

\* C10 witness: a colored conversion of a 3-channel frame to a grid of several
\* rows and columns, escape sequences included.
C10_Witness ==
    /\ Returned
    /\ conv.color /\ conv_call.frame.chan = 3
    /\ conv_call.result.width >= 2
    /\ conv_call.result.height >= 2
    /\ Len(conv_call.result.content) > conv_call.result.width * conv_call.result.height

(***************************************************************************)
(* Properties of the glyph ramp and of the reported frame index.           *)
(***************************************************************************)
\* C11 (as claimed): no converter with a ramp of length 0 exists, and no
\* frame conversion is ever attempted with an empty ramp.
C11_EmptyRampRejected ==
    /\ Len(conv.chars) >= 1
    /\ conv_call.op = "frame_to_ascii" => conv.char_count >= 1

\* the ramp in effect: the configured one, reversed when invert is set
EffectiveRamp ==
    LET cfg == conv.args.chars IN
    IF conv.args.invert THEN [i \in 1..Len(cfg) |-> cfg[Len(cfg) + 1 - i]] ELSE cfg

IsGlyph(tok) == tok[1] = "chr" /\ tok # LF

\* the glyphs of a content in reading order, escape sequences and breaks left out
Glyphs(content) == SelectSeq(content, IsGlyph)

\* the brightness of column x (0-based) of the resampled grid of the last call
Brightness(x) ==
    LET f == conv_call.frame IN
    resize(f, conv_call.result.width, x, gray(f, f.left), gray(f, f.right))

C13_ReportedIndexIsTimestampIndex ==
    /\ \A i \in 1..Len(rendered) :
          /\ rendered[i].idx = rendered[i].ts_idx
          /\ frame_count_ > 0 =>
                /\ rendered[i].idx \in 0..(frame_count_ - 1)
                /\ (rendered[i].idx + 1) * 100 <= 100 * frame_count_
    /\ \A i \in 1..Len(observed) : observed[i].idx = observed[i].ts_idx

====
